---- MODULE Spec2Model ----
(***************************************************************************)
(* Client portal (React Native): the "active service period" resolution    *)
(* of the services-list, dashboard and service-details screens, and the    *)
(* module-level timeline caches the first two keep.                        *)
(*                                                                         *)
(* Time is a non-negative integer instant.  A JSON date field is either an *)
(* instant in 1..MaxDate or the JSON value null; `new Date(null)` is the   *)
(* epoch, which lies before every instant the server stores.               *)
(***************************************************************************)
EXTENDS Integers, Sequences, FiniteSets, TLC

\* ------------------------------------------------------------------ bounds
MaxDate == 3
MaxEvents == 2
MaxNow == 2
NumChains == 2
NumServices == 1

\* ------------------------------------------------------------ JSON values
\* JSON null in a date field (falsy: `!timeline.end_date`).
NULL == -1
\* new Date(null).getTime()
Epoch == 0

Dates == 1..MaxDate
DateFields == Dates \cup {NULL}

\* new Date(v) for a JSON date field v
NewDate(v) == IF v = NULL THEN Epoch ELSE v

\* A row of the `timeline` array of GET /service-history/:id.  The window a
\* row states, when it states both ends, does not end before it starts.
TimelineEvents ==
  {ev \in [start_date : DateFields, end_date : DateFields] :
     ev.start_date = NULL \/ ev.end_date = NULL \/ ev.start_date <= ev.end_date}

RECURSIVE SeqsUpTo(_, _)
SeqsUpTo(S, n) ==
  IF n = 0 THEN {<<>>}
  ELSE LET shorter == SeqsUpTo(S, n - 1)
       IN shorter \cup {Append(s, e) : s \in {t \in shorter : Len(t) = n - 1}, e \in S}

\* The service state of ServiceDetails before the record has loaded
\* (useState(null)), and a loaded record.
NoService == [missing |-> TRUE]
ServiceRecords ==
  {sv \in [start_date : DateFields, end_date : DateFields] :
     sv.start_date = NULL \/ sv.end_date = NULL \/ sv.start_date <= sv.end_date}

\* ------------------------------------------------- Array.prototype.sort
\* timelineData.sort((a, b) => new Date(b.end_date) - new Date(a.end_date)):
\* a stable sort, latest end date first.
\* Faulty variant of InsertByEndDesc: the comparator's operands swapped
\* (a - b), which sorts the earliest end date first.
RECURSIVE InsertByEndAsc(_, _)
InsertByEndAsc(sorted, e) ==
  IF sorted = <<>> THEN <<e>>
  ELSE IF NewDate(Head(sorted).end_date) <= NewDate(e.end_date)
       THEN <<Head(sorted)>> \o InsertByEndAsc(Tail(sorted), e)
       ELSE <<e>> \o sorted

RECURSIVE InsertByEndDesc(_, _)
InsertByEndDesc(sorted, e) ==
  IF sorted = <<>> THEN <<e>>
  ELSE IF NewDate(Head(sorted).end_date) >= NewDate(e.end_date)
       THEN <<Head(sorted)>> \o InsertByEndDesc(Tail(sorted), e)
       ELSE <<e>> \o sorted

RECURSIVE SortByEndDesc(_)
SortByEndDesc(s) ==
  IF s = <<>> THEN <<>>
  ELSE InsertByEndDesc(SortByEndDesc(SubSeq(s, 1, Len(s) - 1)), s[Len(s)])

\* Array.prototype.find, given the indices of the elements the callback
\* accepts: the index of the first of them, 0 for undefined
FindIndex(matching) ==
  IF matching = {} THEN 0
  ELSE CHOOSE i \in matching : \A j \in matching : i <= j

\* --------------------------------------------- the resolvers' predicates
\* Faulty variant of IsActiveEvent: the start of the window not compared.
IsActiveEventNoStart(today, ev) ==
  /\ ev.start_date # NULL
  /\ ev.end_date # NULL
  /\ today <= NewDate(ev.end_date)

\* today is between start and end (both fields present)
IsActiveEvent(today, ev) ==
  /\ ev.start_date # NULL
  /\ ev.end_date # NULL
  /\ today >= NewDate(ev.start_date)
  /\ today <= NewDate(ev.end_date)

\* the event has ended before today
IsCompletedEvent(today, ev) ==
  /\ ev.end_date # NULL
  /\ NewDate(ev.end_date) < today

\* ------------------------------------- ServicesList.getCurrentServiceDates
\* Lines 41-91 of ServicesList.jsx, run on the array the cache holds for the
\* service: `today` is the instant the call started (line 24), (start, end)
\* the service record's fields.
ListResolveTimeline(today, start, end, timelineData) ==
  LET sortedTimeline == SortByEndDesc(timelineData)
      a == FindIndex({i \in 1..Len(sortedTimeline) : IsActiveEvent(today, sortedTimeline[i])})
      completedTimelines == SelectSeq(sortedTimeline, LAMBDA ev : IsCompletedEvent(today, ev))
      picked == IF a # 0 THEN <<sortedTimeline[a]>>
                ELSE IF Len(completedTimelines) > 0 THEN <<completedTimelines[1]>>
                ELSE <<>>
      currentStart == IF picked # <<>> THEN NewDate(picked[1].start_date) ELSE NewDate(start)
      currentEnd == IF picked # <<>> THEN NewDate(picked[1].end_date) ELSE NewDate(end)
  IN [currentStart |-> currentStart,
      currentEnd |-> currentEnd,
      isExtended |-> picked # <<>>,
      isActive |-> today >= currentStart /\ today <= currentEnd]

\* Lines 80-91 of ServicesList.jsx: the catch block keeps the original dates.
ListResolveOnError(today, start, end) ==
  [currentStart |-> NewDate(start),
   currentEnd |-> NewDate(end),
   isExtended |-> FALSE,
   isActive |-> today >= NewDate(start) /\ today <= NewDate(end)]

\* ---------------------------------------- Dashboard.getCurrentServiceDates
\* Lines 41-88 of Dashboard.jsx: the same routine, but `today` is the
\* module-level constant of line 19, taken when the module was loaded.
DashResolveTimeline(today, start, end, timelineData) ==
  LET sortedTimeline == SortByEndDesc(timelineData)
      a == FindIndex({i \in 1..Len(sortedTimeline) : IsActiveEvent(today, sortedTimeline[i])})
      completedTimelines == SelectSeq(sortedTimeline, LAMBDA ev : IsCompletedEvent(today, ev))
      picked == IF a # 0 THEN <<sortedTimeline[a]>>
                ELSE IF Len(completedTimelines) > 0 THEN <<completedTimelines[1]>>
                ELSE <<>>
      currentStart == IF picked # <<>> THEN NewDate(picked[1].start_date) ELSE NewDate(start)
      currentEnd == IF picked # <<>> THEN NewDate(picked[1].end_date) ELSE NewDate(end)
  IN [currentStart |-> currentStart,
      currentEnd |-> currentEnd,
      isExtended |-> picked # <<>>,
      isActive |-> today >= currentStart /\ today <= currentEnd]

\* Lines 78-88 of Dashboard.jsx
DashResolveOnError(today, start, end) ==
  [currentStart |-> NewDate(start),
   currentEnd |-> NewDate(end),
   isExtended |-> FALSE,
   isActive |-> today >= NewDate(start) /\ today <= NewDate(end)]

\* ------------------------- ServiceDetails.getCurrentActiveServicePeriod
\* a || b for JSON date fields: the first that is not null
OrElse(a, b) == IF a # NULL THEN a ELSE b

\* Faulty variant of OriginalPeriod: the hasValidDates test inverted.
OriginalPeriodInverted(today, service) ==
  IF ~(service.start_date # NULL /\ service.end_date # NULL)
  THEN [startDate |-> NewDate(service.start_date), endDate |-> NewDate(service.end_date),
        isExtended |-> FALSE, isCompleted |-> FALSE]
  ELSE [startDate |-> today, endDate |-> today, isExtended |-> FALSE, isCompleted |-> FALSE]

\* Lines 135-148 and 193-206 of ServiceDetails.jsx: the original service
\* dates when the record has both (hasValidDates), the current date if not.
OriginalPeriod(today, service) ==
  IF service.start_date # NULL /\ service.end_date # NULL
  THEN [startDate |-> NewDate(service.start_date), endDate |-> NewDate(service.end_date),
        isExtended |-> FALSE, isCompleted |-> FALSE]
  ELSE [startDate |-> today, endDate |-> today, isExtended |-> FALSE, isCompleted |-> FALSE]

\* Lines 118-207 of ServiceDetails.jsx: `service` and `timelineHistory` are
\* the component's state, `today` is new Date() at the call.
getCurrentActiveServicePeriod(today, service, timelineHistory) ==
  IF service = NoService
  THEN [startDate |-> today, endDate |-> today, isExtended |-> FALSE, isCompleted |-> FALSE]
  ELSE
    LET a == FindIndex({i \in 1..Len(timelineHistory) : IsActiveEvent(today, timelineHistory[i])})
        completedTimelines ==
          SortByEndDesc(SelectSeq(timelineHistory, LAMBDA ev : IsCompletedEvent(today, ev)))
    IN IF Len(timelineHistory) = 0 THEN OriginalPeriod(today, service)
       ELSE IF a # 0
       THEN [startDate |-> NewDate(timelineHistory[a].start_date),
             endDate |-> NewDate(timelineHistory[a].end_date),
             isExtended |-> TRUE, isCompleted |-> FALSE]
       ELSE IF Len(completedTimelines) > 0
       THEN LET latestTimeline == completedTimelines[1]
            IN [startDate |-> IF OrElse(latestTimeline.start_date, service.start_date) # NULL
                              THEN NewDate(OrElse(latestTimeline.start_date, service.start_date))
                              ELSE today,
                endDate |-> IF OrElse(latestTimeline.end_date, service.end_date) # NULL
                            THEN NewDate(OrElse(latestTimeline.end_date, service.end_date))
                            ELSE today,
                isExtended |-> TRUE, isCompleted |-> TRUE]
       ELSE OriginalPeriod(today, service)

\* 1000 * 60 * 60 * 24 milliseconds, in instants of the model
DayLen == 2
\* daysRemaining <= 7 is "expiring-soon"
ExpiringSoonDays == 7

\* Faulty variant of calculateServiceStatus: daysRemaining < 7.
calculateServiceStatusStrict(today, service, timelineHistory) ==
  IF service = NoService THEN "unknown"
  ELSE LET effectiveEndDate == getCurrentActiveServicePeriod(today, service, timelineHistory).endDate
           daysRemaining == (effectiveEndDate - today) \div DayLen
       IN IF today > effectiveEndDate THEN "expired"
          ELSE IF daysRemaining < ExpiringSoonDays THEN "expiring-soon"
          ELSE "active"

\* Lines 209-229 of ServiceDetails.jsx
calculateServiceStatus(today, service, timelineHistory) ==
  IF service = NoService THEN "unknown"
  ELSE LET effectiveEndDate == getCurrentActiveServicePeriod(today, service, timelineHistory).endDate
           daysRemaining == (effectiveEndDate - today) \div DayLen
       IN IF today > effectiveEndDate THEN "expired"
          ELSE IF daysRemaining <= ExpiringSoonDays THEN "expiring-soon"
          ELSE IF daysRemaining < 0 THEN "expired"
          ELSE "active"

\* Line 260 of ServiceDetails.jsx
isServiceActive(today, service, timelineHistory) ==
  calculateServiceStatus(today, service, timelineHistory) # "expired"

\* ------------------------------------------------ days remaining, per screen
\* The badge with the days remaining is shown up to this many days
BadgeDays == 30

\* Math.floor(ms / (1000 * 60 * 60 * 24))
FloorDays(ms) == ms \div DayLen

\* Math.ceil(ms / (1000 * 60 * 60 * 24))
CeilDays(ms) == -((-ms) \div DayLen)

\* No badge is rendered
NoLabel == "none"

\* Lines 262-264 of ServiceDetails.jsx
detailsDaysRemaining(today, service, timelineHistory) ==
  IF isServiceActive(today, service, timelineHistory)
  THEN FloorDays(getCurrentActiveServicePeriod(today, service, timelineHistory).endDate - today)
  ELSE 0

\* Lines 435-462 of ServiceDetails.jsx: the badge, rendered only for
\* daysRemaining > 0
detailsDaysLabel(today, service, timelineHistory) ==
  LET daysRemaining == detailsDaysRemaining(today, service, timelineHistory)
  IN IF /\ isServiceActive(today, service, timelineHistory)
        /\ daysRemaining > 0
        /\ daysRemaining <= BadgeDays
     THEN IF daysRemaining = 0 THEN "Expires today" ELSE "days remaining"
     ELSE NoLabel

\* Line 199 of ServicesList.jsx: dates is the entry of serviceDatesMap, today
\* the instant of the render; null (here NULL) for a service that is not active
listDaysLeft(today, dates) ==
  IF dates.isActive THEN FloorDays(dates.currentEnd - today) ELSE NULL

\* Lines 286-310 of ServicesList.jsx
listDaysLabel(today, dates) ==
  LET daysLeft == listDaysLeft(today, dates)
  IN IF dates.isActive /\ daysLeft # NULL /\ daysLeft <= BadgeDays
     THEN IF daysLeft = 0 THEN "Expires today" ELSE "days remaining"
     ELSE NoLabel

\* Line 454 of Dashboard.jsx (ServiceCard): today is the module-level
\* constant of line 19
dashDaysRemaining(today, dates) == CeilDays(dates.currentEnd - today)

\* Lines 455 and 477-484 of Dashboard.jsx
dashDaysLabel(today, dates) ==
  LET daysRemaining == dashDaysRemaining(today, dates)
  IN IF dates.isActive /\ daysRemaining <= BadgeDays /\ daysRemaining > 0
     THEN "days left"
     ELSE NoLabel

\* ============================================================= the screens
\* screen         the screen the behaviour follows.  The three screens share
\*                no state (ServicesList.jsx and Dashboard.jsx each declare
\*                their own module-level cache, ServiceDetails.jsx has none),
\*                so their loads are followed one screen at a time.
\* now            the clock
\* dashToday      Dashboard.jsx's module-level `today`
\* timelineCache  the module-level caches of ServicesList.jsx and Dashboard.jsx
\* chain          the asynchronous loads in flight: fetchServices (list),
\*                loadDashboard (dash), fetchServiceDetails and
\*                fetchTimelineHistory (details)
\* loading        each screen's loading flag
\* succeeded, failedLast, needsRefetch, lastEv record what has happened, for
\* the properties; no action reads them.
VARIABLES screen, now, dashToday, timelineCache, chain, loading,
          succeeded, failedLast, needsRefetch, lastEv

CacheScreens == {"list", "dash"}
Screens == {"list", "dash", "details"}
Chains == 1..NumChains
ServiceIds == 1..NumServices

\* The rows GET /client/services returns: { id, start_date, end_date }
ServiceRow(i) ==
  [id |-> i,
   start_date |-> IF i < MaxDate THEN i + 1 ELSE MaxDate,
   end_date |-> MaxDate]

\* The record of a row, as ServiceDetails holds it
ServiceOf(i) == [start_date |-> ServiceRow(i).start_date, end_date |-> ServiceRow(i).end_date]

\* The timeline arrays GET /service-history/:id may return at some moment
ServerTimelines ==
  {<<>>,
   <<[start_date |-> 1, end_date |-> 1]>>,
   <<[start_date |-> 1, end_date |-> 2], [start_date |-> 2, end_date |-> MaxDate]>>}

\* What a request through api.js can end in: a 2xx response, no response at
\* all, the client timeout, or a non-2xx response.
ApiOutcomes ==
  [kind : {"ok"}, timeline : ServerTimelines]
    \cup [kind : {"network", "timeout", "http"}, timeline : {<<>>}]

\* Faulty variant of ApiRejects: the timeout resolving with an empty body.
ApiRejectsButTimeout(outcome) == outcome.kind \notin {"ok", "timeout"}

\* api.js: axios rejects the promise on a network error, on the timeout of
\* line 6 and on a status outside 2xx; the response interceptor passes the
\* rejection on.
ApiRejects(outcome) == outcome.kind # "ok"

\* Faulty variant of CacheMiss: an empty array taken for a missing entry
\* (`!timelineCache[serviceId]?.length`).
CacheMissOnEmpty(cache, id) == id \notin DOMAIN cache \/ cache[id] = <<>>

\* `!timelineCache[serviceId]`: no entry (an array, even empty, is truthy)
CacheMiss(cache, id) == id \notin DOMAIN cache

\* Faulty variant of ResolverCatches: the fetch outside the try block.
ResolverCatchesNothing(outcome) == FALSE

\* The try/catch of getCurrentServiceDates encloses the fetch: every
\* rejection is caught there.
ResolverCatches(outcome) == TRUE

Put(f, k, v) == [x \in DOMAIN f \cup {k} |-> IF x = k THEN v ELSE f[x]]

EmptyMap == <<>>

\* A load that starts takes the first free slot.
FreeSlot(p) == chain[p].pc = "idle" /\ \A q \in 1..(p - 1) : chain[q].pc # "idle"

IdleChain ==
  [screen |-> "none", pc |-> "idle", idx |-> 0, today |-> 0,
   service |-> NoService, history |-> <<>>]

NoResult == [none |-> TRUE]

\* What the last step did: op, its screen and service id, how the
\* request ended (kind), whether the id had not been resolved since the last
\* clear (afterClear) or since its last failed fetch (afterFailure), and what
\* the resolver returned (for a clear: the ids the cache held before it).
Ev(op, s, id, kind, ac, af, r) ==
  [op |-> op, screen |-> s, id |-> id, kind |-> kind,
   afterClear |-> ac, afterFailure |-> af, result |-> r]

Step(op, s) == Ev(op, s, 0, "none", FALSE, FALSE, NoResult)

NoEvent == Step("init", "none")

scrVars == <<screen, now, dashToday, timelineCache, chain, loading,
             succeeded, failedLast, needsRefetch, lastEv>>

InitScreens ==
  /\ now = 1
  /\ dashToday = 1
  /\ timelineCache = [s \in CacheScreens |-> EmptyMap]
  /\ chain = [p \in Chains |-> IdleChain]
  /\ loading = [s \in Screens |-> TRUE]
  /\ succeeded = [s \in CacheScreens |-> {}]
  /\ failedLast = [s \in CacheScreens |-> {}]
  /\ needsRefetch = {}
  /\ lastEv = NoEvent

\* Time passes.
Tick ==
  /\ now < MaxNow
  /\ now' = now + 1
  /\ lastEv' = Step("tick", "none")
  /\ UNCHANGED <<screen, dashToday, timelineCache, chain, loading,
                 succeeded, failedLast, needsRefetch>>

\* A screen is mounted: useEffect starts fetchServices / loadDashboard.
StartLoad(p, s) ==
  /\ FreeSlot(p)
  /\ s = screen
  /\ s \in CacheScreens
  /\ chain' = [chain EXCEPT ![p] = [IdleChain EXCEPT !.screen = s, !.pc = "services"]]
  /\ loading' = [loading EXCEPT ![s] = TRUE]
  /\ lastEv' = Step("start", s)
  /\ UNCHANGED <<screen, now, dashToday, timelineCache,
                 succeeded, failedLast, needsRefetch>>

\* Faulty variant of ClearCache: no key deleted.
ClearCacheNothing(cache) == cache

\* Line 173 of ServicesList.jsx: every key of the cache deleted
ClearCache(cache) == EmptyMap

\* ServicesList.onRefresh: empty the list's cache, then fetchServices.
\* The pull-to-refresh control exists once the list is shown.
Refresh(p) ==
  /\ FreeSlot(p)
  /\ screen = "list"
  /\ ~loading["list"]
  /\ timelineCache' = [timelineCache EXCEPT !["list"] = ClearCache(@)]
  /\ chain' = [chain EXCEPT ![p] = [IdleChain EXCEPT !.screen = "list", !.pc = "services"]]
  /\ succeeded' = [succeeded EXCEPT !["list"] = {}]
  /\ needsRefetch' = ServiceIds
  /\ lastEv' = Ev("clear", "list", 0, "none", FALSE, FALSE,
                  [held |-> DOMAIN timelineCache["list"]])
  /\ UNCHANGED <<screen, now, dashToday, loading, failedLast>>

\* The services request (and, on the dashboard, the profile request joined
\* with it) succeeded: calculateServiceDates starts on the first row.
ServicesOk(p) ==
  /\ chain[p].pc = "services"
  /\ chain[p].screen \in CacheScreens
  /\ chain' = [chain EXCEPT ![p].pc = "resolve", ![p].idx = 1]
  /\ lastEv' = Step("services", chain[p].screen)
  /\ UNCHANGED <<screen, now, dashToday, timelineCache, loading,
                 succeeded, failedLast, needsRefetch>>

\* It failed: the catch of fetchServices / loadDashboard, then finally.
ServicesFail(p) ==
  /\ chain[p].pc = "services"
  /\ chain[p].screen \in CacheScreens
  /\ chain' = [chain EXCEPT ![p] = IdleChain]
  /\ loading' = [loading EXCEPT ![chain[p].screen] = FALSE]
  /\ lastEv' = Step("servicesFailed", chain[p].screen)
  /\ UNCHANGED <<screen, now, dashToday, timelineCache,
                 succeeded, failedLast, needsRefetch>>

\* getCurrentServiceDates of the screen, from the try block's line 41 on
ResolveFor(s, today, row, timelineData) ==
  IF s = "list"
  THEN ListResolveTimeline(today, row.start_date, row.end_date, timelineData)
  ELSE DashResolveTimeline(today, row.start_date, row.end_date, timelineData)

\* getCurrentServiceDates of the screen, through its catch block
OnErrorFor(s, today, row) ==
  IF s = "list"
  THEN ListResolveOnError(today, row.start_date, row.end_date)
  ELSE DashResolveOnError(today, row.start_date, row.end_date)

\* getCurrentServiceDates returned to calculateServiceDates: the loop goes
\* on to the next row, or, after the last row, the load ends
\* (finally: setLoading(false)).
Returned(p) ==
  LET s == chain[p].screen
      id == chain[p].idx
  IN IF id = NumServices
     THEN /\ chain' = [chain EXCEPT ![p] = IdleChain]
          /\ loading' = [loading EXCEPT ![s] = FALSE]
     ELSE /\ chain' = [chain EXCEPT ![p].pc = "resolve", ![p].idx = id + 1]
          /\ UNCHANGED loading

\* An exception left getCurrentServiceDates: it reaches the catch of
\* fetchServices / loadDashboard, and the load ends.
Propagated(p) ==
  /\ chain' = [chain EXCEPT ![p] = IdleChain]
  /\ loading' = [loading EXCEPT ![chain[p].screen] = FALSE]

\* calculateServiceDates calls getCurrentServiceDates for the next row: up
\* to the await of the fetch on a miss, to the return on a hit.
Get(p) ==
  LET s == chain[p].screen
      id == chain[p].idx
      today == IF s = "list" THEN now ELSE dashToday
      ac == s = "list" /\ id \in needsRefetch
      af == id \in failedLast[s]
  IN /\ chain[p].pc = "resolve"
     /\ IF CacheMiss(timelineCache[s], id)
        THEN /\ chain' = [chain EXCEPT ![p].pc = "timeline", ![p].today = today]
             /\ lastEv' = Ev("miss", s, id, "none", ac, af, NoResult)
             /\ UNCHANGED <<timelineCache, loading>>
        ELSE LET r == ResolveFor(s, today, ServiceRow(id), timelineCache[s][id])
             IN /\ timelineCache' =
                     [timelineCache EXCEPT ![s][id] = SortByEndDesc(timelineCache[s][id])]
                /\ Returned(p)
                /\ lastEv' = Ev("hit", s, id, "none", ac, af, r)
     /\ failedLast' = [failedLast EXCEPT ![s] = @ \ {id}]
     /\ needsRefetch' = IF s = "list" THEN needsRefetch \ {id} ELSE needsRefetch
     /\ UNCHANGED <<screen, now, dashToday, succeeded>>

\* The fetch of /service-history/:id ended: the rest of the try block on a
\* response (store, sort in place, resolve), the catch block on a rejection.
TimelineResponse(p, outcome) ==
  LET s == chain[p].screen
      id == chain[p].idx
      today == chain[p].today
  IN /\ chain[p].pc = "timeline"
     /\ s \in CacheScreens
     /\ IF ApiRejects(outcome)
        THEN /\ IF ResolverCatches(outcome)
                THEN LET r == OnErrorFor(s, today, ServiceRow(id))
                     IN /\ Returned(p)
                        /\ lastEv' = Ev("failed", s, id, outcome.kind, FALSE, FALSE, r)
                ELSE /\ Propagated(p)
                     /\ lastEv' = Ev("propagated", s, id, outcome.kind, FALSE, FALSE, NoResult)
             /\ failedLast' = [failedLast EXCEPT ![s] = @ \cup {id}]
             /\ UNCHANGED <<timelineCache, succeeded>>
        ELSE LET r == ResolveFor(s, today, ServiceRow(id), outcome.timeline)
             IN /\ timelineCache' =
                     [timelineCache EXCEPT ![s] = Put(@, id, SortByEndDesc(outcome.timeline))]
                /\ Returned(p)
                /\ succeeded' = [succeeded EXCEPT ![s] = @ \cup {id}]
                /\ lastEv' = Ev("stored", s, id, outcome.kind, FALSE, FALSE, r)
                /\ UNCHANGED failedLast
     /\ UNCHANGED <<screen, now, dashToday, needsRefetch>>

\* ---------------------------------------------------------- ServiceDetails
\* The details screen is opened for a service: fetchServiceDetails starts.
StartDetails(p, id) ==
  /\ FreeSlot(p)
  /\ screen = "details"
  /\ chain' = [chain EXCEPT ![p] = [IdleChain EXCEPT !.screen = "details",
                                                     !.pc = "services", !.idx = id]]
  /\ loading' = [loading EXCEPT !["details"] = TRUE]
  /\ lastEv' = Step("start", "details")
  /\ UNCHANGED <<screen, now, dashToday, timelineCache, succeeded, failedLast, needsRefetch>>

\* GET /client/services/:id ended.  With a record: setService, the screen
\* renders (currentPeriod, line 258) and the effect on [service] starts
\* fetchTimelineHistory.  Without: service stays null and the screen renders
\* "not found".
DetailsService(p, outcome) ==
  LET id == chain[p].idx
      service == IF ApiRejects(outcome) THEN NoService ELSE ServiceOf(id)
      r == getCurrentActiveServicePeriod(now, service, chain[p].history)
  IN /\ chain[p].pc = "services"
     /\ chain[p].screen = "details"
     /\ chain' = IF service = NoService
                 THEN [chain EXCEPT ![p] = IdleChain]
                 ELSE [chain EXCEPT ![p].pc = "timeline", ![p].service = service]
     /\ loading' = [loading EXCEPT !["details"] = FALSE]
     /\ lastEv' = Ev("render", "details", id, outcome.kind, FALSE, FALSE, r)
     /\ UNCHANGED <<screen, now, dashToday, timelineCache, succeeded, failedLast, needsRefetch>>

\* fetchTimelineHistory ended: setTimelineHistory on a response, only a log
\* on a rejection; the screen renders with what it holds.
DetailsTimeline(p, outcome) ==
  LET id == chain[p].idx
      timelineHistory == IF ApiRejects(outcome) THEN chain[p].history ELSE outcome.timeline
      r == getCurrentActiveServicePeriod(now, chain[p].service, timelineHistory)
  IN /\ chain[p].pc = "timeline"
     /\ chain[p].screen = "details"
     /\ chain' = [chain EXCEPT ![p] = IdleChain]
     /\ lastEv' = Ev(IF ApiRejects(outcome) THEN "failed" ELSE "render",
                     "details", id, outcome.kind, FALSE, FALSE, r)
     /\ UNCHANGED <<screen, now, dashToday, timelineCache, loading, succeeded, failedLast,
                    needsRefetch>>

\* ===================================================== the resolvers, called
\* args: one call's inputs.  now is the instant of the call, loaded the
\* instant Dashboard.jsx was loaded (its module-level `today`), service the
\* record (NoService: ServiceDetails before its record arrived), events and
\* maintenance the `timeline` and `maintenance` arrays of the response of
\* GET /service-history/:id for the service.
\* ret: what each screen's resolver returned for them, and, once the
\* resolvers have been called again on what the first call left, what they
\* returned then.
VARIABLES args, ret

\* ----------------------------------------------------- one mounted screen
\* The state of the one component instance a behaviour follows (`screen`):
\* services, clientName, serviceDatesMap, summary, refreshing, service are
\* its useState values (its loading flag is loading[screen]); load is its
\* asynchronous load in flight: loadDashboard, fetchServices or
\* fetchServiceDetails.
VARIABLES services, clientName, serviceDatesMap, summary, refreshing, service, load

viewVars == <<services, clientName, serviceDatesMap, summary, refreshing, service, load>>

\* useState({ activeCount: 0, expiredCount: 0, expiringSoonCount: 0 })
InitialSummary == [activeCount |-> 0, expiredCount |-> 0, expiringSoonCount |-> 0]

\* useState('Client')
DefaultName == "Client"

NoLoad ==
  [pc |-> "idle", servicesRes |-> "none", profileRes |-> "none", rows |-> <<>>,
   name |-> "", idx |-> 0, datesMap |-> EmptyMap, thirtyDaysFromNow |-> 0,
   activeCount |-> 0, expiringSoonCount |-> 0]

\* The component as its useState calls leave it
Unmounted ==
  /\ services = <<>>
  /\ clientName = DefaultName
  /\ serviceDatesMap = EmptyMap
  /\ summary = InitialSummary
  /\ refreshing = FALSE
  /\ service = NoService
  /\ load = NoLoad

\* ------------------------------------------------------------ the session
\* token        AuthProvider's token state
\* stored       the token authStorage holds
\* authLoading  AuthProvider's loading state
\* calls        the calls of loadToken, login and logout in flight
\* request      the request through api.js in flight
\* lastAuth     what the last step of the session did, for the properties
VARIABLES token, stored, authLoading, calls, request, lastAuth

authVars == <<token, stored, authLoading, calls, request, lastAuth>>

MaxTokens == 2
MaxCalls == 2

\* useState(null); also what getToken resolves with when nothing is stored
NoToken == 0
Tokens == 1..MaxTokens
CallSlots == 1..MaxCalls

NoCall == [op |-> "none", pc |-> "idle", token |-> NoToken]
NoRequest == [pc |-> "idle", authorization |-> NoToken]
NoAuthEvent == [op |-> "init", status |-> 0, settled |-> "none", logged |-> FALSE]

\* The session while a behaviour does not follow it
SignedOut ==
  /\ token = NoToken
  /\ stored = NoToken
  /\ authLoading = TRUE
  /\ calls = [c \in CallSlots |-> NoCall]
  /\ request = NoRequest
  /\ lastAuth = NoAuthEvent

vars == <<screen, now, dashToday, timelineCache, chain, loading,
          succeeded, failedLast, needsRefetch, lastEv, args, ret,
          viewVars, authVars>>

\* The service records the calls are tried on
ServiceChoices ==
  {NoService,
   [start_date |-> NULL, end_date |-> NULL],
   [start_date |-> 1, end_date |-> MaxDate],
   [start_date |-> 2, end_date |-> 2]}

NotCalled == [done |-> FALSE, list |-> NoResult, dash |-> NoResult,
              details |-> NoResult, detailsActive |-> FALSE,
              detailsStatus |-> "unknown", days |-> NoResult, label |-> NoResult,
              again |-> NoResult]

\* The maintenance arrays the calls are tried on: none, or one extension
\* that follows the service's original window
MaintenanceChoices == {<<>>, <<[start_date |-> 2, end_date |-> MaxDate]>>}

ArgChoices ==
  {a \in [now : Dates, loaded : Dates, service : ServiceChoices,
          events : SeqsUpTo(TimelineEvents, MaxEvents),
          maintenance : MaintenanceChoices] :
     a.loaded \in {1, a.now}}

\* The arguments while the screens run
NoArgs == [now |-> 1, loaded |-> 1, service |-> NoService, events |-> <<>>,
           maintenance |-> <<>>]

InitResolve ==
  /\ args \in ArgChoices
  /\ ret = NotCalled
  /\ screen = "none"
  /\ InitScreens
  /\ Unmounted
  /\ SignedOut

\* The body of the response of GET /service-history/:id
ResponseBody == [timeline |-> args.events, maintenance |-> args.maintenance]

\* res.data?.data?.timeline || []: what each resolver takes of the body
ResponseTimeline(body) == body.timeline

\* What the list's and the dashboard's resolvers return for args
ListDates ==
  ListResolveTimeline(args.now, args.service.start_date, args.service.end_date,
                      ResponseTimeline(ResponseBody))

DashDates ==
  DashResolveTimeline(args.loaded, args.service.start_date, args.service.end_date,
                      ResponseTimeline(ResponseBody))

\* One render: each screen resolves the service's period from the same
\* inputs.  The list takes `today` at the call, the dashboard uses the
\* instant its module was loaded, the details screen takes new Date().
CallResolvers ==
  /\ ~ret.done
  /\ ret' = [done |-> TRUE,
             list |-> IF args.service = NoService THEN NoResult ELSE ListDates,
             dash |-> IF args.service = NoService THEN NoResult ELSE DashDates,
             details |-> getCurrentActiveServicePeriod(args.now, args.service,
                                                       ResponseTimeline(ResponseBody)),
             detailsActive |-> isServiceActive(args.now, args.service,
                                               ResponseTimeline(ResponseBody)),
             detailsStatus |-> calculateServiceStatus(args.now, args.service,
                                                      ResponseTimeline(ResponseBody)),
             days |-> IF args.service = NoService THEN NoResult
                      ELSE [list |-> listDaysLeft(args.now, ListDates),
                            dash |-> dashDaysRemaining(args.loaded, DashDates),
                            details |-> detailsDaysRemaining(args.now, args.service,
                                                             ResponseTimeline(ResponseBody))],
             label |-> IF args.service = NoService THEN NoResult
                       ELSE [list |-> listDaysLabel(args.now, ListDates),
                             dash |-> dashDaysLabel(args.loaded, DashDates),
                             details |-> detailsDaysLabel(args.now, args.service,
                                                          ResponseTimeline(ResponseBody))],
             again |-> NoResult]
  /\ UNCHANGED args
  /\ UNCHANGED <<scrVars, viewVars, authVars>>

\* Faulty variant of CachedAfter: the call leaves the array in the reverse
\* of the order it sorted it into.
CachedAfterReversed(timelineData) ==
  LET sorted == SortByEndDesc(timelineData)
  IN [i \in 1..Len(sorted) |-> sorted[Len(sorted) + 1 - i]]

\* The array the cache holds after a call: the one the call stored or
\* found, sorted in place (lines 38-46 of ServicesList.jsx and Dashboard.jsx).
CachedAfter(timelineData) == SortByEndDesc(timelineData)

\* The same render again, at the same instant: the list and the dashboard
\* resolve from the array their first call left in the cache, the details
\* screen from its unchanged timelineHistory state.
CallAgain ==
  /\ ret.done
  /\ ret.again = NoResult
  /\ args.service # NoService
  /\ ret' = [ret EXCEPT !.again =
               [list |-> ListResolveTimeline(args.now, args.service.start_date,
                                             args.service.end_date,
                                             CachedAfter(ResponseTimeline(ResponseBody))),
                dash |-> DashResolveTimeline(args.loaded, args.service.start_date,
                                             args.service.end_date,
                                             CachedAfter(ResponseTimeline(ResponseBody))),
                details |-> getCurrentActiveServicePeriod(args.now, args.service,
                                                          ResponseTimeline(ResponseBody))]]
  /\ UNCHANGED args
  /\ UNCHANGED <<scrVars, viewVars, authVars>>

NextResolve == CallResolvers \/ CallAgain

SpecResolve == InitResolve /\ [][NextResolve]_vars

\* ------------------------------------------------ the status, at its bounds
\* End dates up to two days past the expiring-soon threshold
StatusDates == 1..(MaxDate + (ExpiringSoonDays + 2) * DayLen)

StatusArgChoices ==
  {a \in [now : Dates, loaded : Dates,
          service : [start_date : {1}, end_date : StatusDates],
          events : {<<>>, <<[start_date |-> 1, end_date |-> 1]>>},
          maintenance : {<<>>}] :
     a.loaded \in {1, a.now}}

InitStatus ==
  /\ args \in StatusArgChoices
  /\ ret = NotCalled
  /\ screen = "none"
  /\ InitScreens
  /\ Unmounted
  /\ SignedOut

SpecStatus == InitStatus /\ [][NextResolve]_vars

\* ------------------------------------------------------- ServiceTimeline
\* A row of the `maintenance` array: its start is not looked at
MaintenanceRecords == [start_date : DateFields, end_date : DateFields]

\* Faulty variant of getTimelineStatus: a phase that starts at this very
\* instant still upcoming.
getTimelineStatusNotYet(today, item) ==
  IF today <= NewDate(item.start_date) THEN "upcoming"
  ELSE IF today > NewDate(item.end_date) THEN "completed"
  ELSE "active"

\* Lines 82-90 of ServiceTimeline.jsx
getTimelineStatus(today, item) ==
  IF today < NewDate(item.start_date) THEN "upcoming"
  ELSE IF today > NewDate(item.end_date) THEN "completed"
  ELSE "active"

\* Faulty variant of getMaintenanceStatus: the three states of a phase.
getMaintenanceStatusAsPhase(today, item) ==
  IF today < NewDate(item.start_date) THEN "upcoming"
  ELSE IF today > NewDate(item.end_date) THEN "expired"
  ELSE "active"

\* Lines 92-98 of ServiceTimeline.jsx
getMaintenanceStatus(today, item) ==
  IF today > NewDate(item.end_date) THEN "expired" ELSE "active"

RECURSIVE InsertByStartDesc(_, _)
InsertByStartDesc(sorted, e) ==
  IF sorted = <<>> THEN <<e>>
  ELSE IF NewDate(Head(sorted).start_date) >= NewDate(e.start_date)
       THEN <<Head(sorted)>> \o InsertByStartDesc(Tail(sorted), e)
       ELSE <<e>> \o sorted

\* Lines 43-44 of ServiceTimeline.jsx: sort((a, b) => new Date(b.start_date)
\* - new Date(a.start_date))
RECURSIVE SortByStartDesc(_)
SortByStartDesc(s) ==
  IF s = <<>> THEN <<>>
  ELSE InsertByStartDesc(SortByStartDesc(SubSeq(s, 1, Len(s) - 1)), s[Len(s)])

TimelineArgChoices ==
  [now : Dates,
   events : SeqsUpTo(TimelineEvents, 1),
   maintenance : SeqsUpTo(MaintenanceRecords, MaxEvents)]

InitTimeline ==
  /\ args \in TimelineArgChoices
  /\ ret = [done |-> FALSE]
  /\ screen = "none"
  /\ InitScreens
  /\ Unmounted
  /\ SignedOut

\* fetchHistory got its response: both arrays are sorted and set, and the
\* screen renders each row with its status.
RenderTimeline ==
  /\ ~ret.done
  /\ LET timeline == SortByStartDesc(args.events)
         maintenance == SortByStartDesc(args.maintenance)
     IN ret' = [done |-> TRUE,
                timeline |-> timeline,
                maintenance |-> maintenance,
                timelineStatus |-> [i \in 1..Len(timeline) |->
                                      getTimelineStatus(args.now, timeline[i])],
                maintenanceStatus |-> [i \in 1..Len(maintenance) |->
                                         getMaintenanceStatus(args.now, maintenance[i])]]
  /\ UNCHANGED args
  /\ UNCHANGED <<scrVars, viewVars, authVars>>

NextTimeline == RenderTimeline

SpecTimeline == InitTimeline /\ [][NextTimeline]_vars

\* ============================================================ the session
\* authStorage: saveToken, removeToken and getToken on the one stored token
saveToken(held, jwtToken) == jwtToken
removeToken(held) == NoToken
getToken(held) == held

\* The statuses a response may carry
Statuses == {200, 401, 500}

\* Faulty variant of ResponseInterceptor: a 401 ends the session.
ResponseInterceptorLogout(status, session) ==
  [session |-> IF status = 401 THEN [token |-> NoToken, stored |-> NoToken] ELSE session,
   settled |-> IF status = 200 THEN "fulfilled" ELSE "rejected",
   logged |-> status = 401]

\* api.interceptors.response (api.js 24-33): a 2xx response is passed on;
\* an error is logged when its status is 401, and rejected to the caller.
\* The session is not touched.
ResponseInterceptor(status, session) ==
  [session |-> session,
   settled |-> IF status = 200 THEN "fulfilled" ELSE "rejected",
   logged |-> status = 401]

\* A call that starts takes the first free slot.
FreeCall(c) == calls[c].pc = "idle" /\ \A d \in 1..(c - 1) : calls[d].pc # "idle"

\* The app starts: AuthProvider mounts with whatever an earlier run stored,
\* and its effect calls loadToken.
InitAuth ==
  /\ stored \in Tokens \cup {NoToken}
  /\ token = NoToken
  /\ authLoading = TRUE
  /\ calls = [c \in CallSlots |->
                IF c = 1 THEN [op |-> "loadToken", pc |-> "storage", token |-> NoToken]
                ELSE NoCall]
  /\ request = NoRequest
  /\ lastAuth = NoAuthEvent
  /\ screen = "none"
  /\ InitScreens
  /\ Unmounted
  /\ args = NoArgs
  /\ ret = NotCalled

\* login(jwtToken) is called: LoginScreen is shown once AuthProvider has
\* loaded and while it holds no token, and its button is disabled while a
\* login is in progress.  The call awaits saveToken.
login(c, jwtToken) ==
  /\ FreeCall(c)
  /\ ~authLoading
  /\ token = NoToken
  /\ \A d \in CallSlots : calls[d].op # "login"
  /\ calls' = [calls EXCEPT ![c] = [op |-> "login", pc |-> "storage", token |-> jwtToken]]
  /\ lastAuth' = [NoAuthEvent EXCEPT !.op = "login"]
  /\ UNCHANGED <<token, stored, authLoading, request>>

\* logout() is called: the app's menu is shown while AuthProvider holds a
\* token.  The call awaits removeToken.
logout(c) ==
  /\ FreeCall(c)
  /\ ~authLoading
  /\ token # NoToken
  /\ calls' = [calls EXCEPT ![c] = [op |-> "logout", pc |-> "storage", token |-> NoToken]]
  /\ lastAuth' = [NoAuthEvent EXCEPT !.op = "logout"]
  /\ UNCHANGED <<token, stored, authLoading, request>>

\* The storage operation a call awaits takes effect.
StorageDone(c) ==
  /\ calls[c].pc = "storage"
  /\ stored' = IF calls[c].op = "login" THEN saveToken(stored, calls[c].token)
               ELSE IF calls[c].op = "logout" THEN removeToken(stored)
               ELSE stored
  /\ calls' = [calls EXCEPT ![c].pc = "resume",
                            ![c].token = IF calls[c].op = "loadToken"
                                         THEN getToken(stored) ELSE @]
  /\ lastAuth' = [NoAuthEvent EXCEPT !.op = "storage"]
  /\ UNCHANGED <<token, authLoading, request>>

\* The call resumes after its await: setToken (lines 13-14, 21, 26).
Resumed(c) ==
  /\ calls[c].pc = "resume"
  /\ token' = IF calls[c].op = "login" THEN calls[c].token
              ELSE IF calls[c].op = "logout" THEN NoToken
              ELSE IF calls[c].token # NoToken THEN calls[c].token ELSE token
  /\ authLoading' = IF calls[c].op = "loadToken" THEN FALSE ELSE authLoading
  /\ calls' = [calls EXCEPT ![c] = NoCall]
  /\ lastAuth' = [NoAuthEvent EXCEPT !.op = "resumed"]
  /\ UNCHANGED <<stored, request>>

\* A screen sends a request through api.js: the request interceptor reads
\* the stored token into the Authorization header.
SendRequest ==
  /\ ~authLoading
  /\ request.pc = "idle"
  /\ request' = [pc |-> "sent", authorization |-> getToken(stored)]
  /\ lastAuth' = [NoAuthEvent EXCEPT !.op = "request"]
  /\ UNCHANGED <<token, stored, authLoading, calls>>

\* Its response arrives and passes the response interceptor.
Response(status) ==
  LET out == ResponseInterceptor(status, [token |-> token, stored |-> stored])
  IN /\ request.pc = "sent"
     /\ request' = NoRequest
     /\ token' = out.session.token
     /\ stored' = out.session.stored
     /\ lastAuth' = [op |-> "response", status |-> status,
                     settled |-> out.settled, logged |-> out.logged]
     /\ UNCHANGED <<authLoading, calls>>

NextAuth ==
  \/ \E c \in CallSlots, t \in Tokens :
       login(c, t) /\ UNCHANGED <<scrVars, args, ret, viewVars>>
  \/ \E c \in CallSlots : logout(c) /\ UNCHANGED <<scrVars, args, ret, viewVars>>
  \/ \E c \in CallSlots : StorageDone(c) /\ UNCHANGED <<scrVars, args, ret, viewVars>>
  \/ \E c \in CallSlots : Resumed(c) /\ UNCHANGED <<scrVars, args, ret, viewVars>>
  \/ SendRequest /\ UNCHANGED <<scrVars, args, ret, viewVars>>
  \/ \E status \in Statuses : Response(status) /\ UNCHANGED <<scrVars, args, ret, viewVars>>

SpecAuth == InitAuth /\ [][NextAuth]_vars

\* ===================================================== one mounted screen
MaxRows == 2
RowIds == 1..MaxRows

\* thirtyDaysFromNow.setDate(thirtyDaysFromNow.getDate() + 30)
ThirtyDays == 30

\* The rows GET /client/services may list: row 1 starts after the first
\* instant and ends soon, the others run from the first instant to more
\* than thirty days ahead.
ListedRow(i) ==
  [id |-> i,
   start_date |-> IF i = 1 THEN 2 ELSE 1,
   end_date |-> IF i = 1 THEN MaxDate ELSE MaxDate + (ThirtyDays + i) * DayLen]

\* The arrays of rows the server may answer with, at one moment or another
RowLists ==
  {r \in SeqsUpTo(RowIds, MaxRows) : \A i, j \in 1..Len(r) : i < j => r[i] < r[j]}

\* How GET /client/services ends
ServicesOutcomes == [kind : {"ok"}, rows : RowLists] \cup [kind : {"failed"}, rows : {<<>>}]

\* How GET /clients/profile/me ends; "" is a profile without a name
ProfileOutcomes == [kind : {"ok"}, name : {"", "Asha"}] \cup [kind : {"failed"}, name : {""}]

\* profile?.name || 'Client'
ClientNameOf(name) == IF name = "" THEN DefaultName ELSE name

\* Faulty variant of Joined: the profile request not waited for.
JoinedOnServices(servicesRes, profileRes) ==
  IF servicesRes = "failed" THEN "rejected"
  ELSE IF servicesRes = "ok" THEN "fulfilled"
  ELSE "pending"

\* Promise.all of the requests of a load ("none": not requested): rejected as
\* soon as one has failed, fulfilled once all have succeeded.
Joined(servicesRes, profileRes) ==
  IF servicesRes = "failed" \/ profileRes = "failed" THEN "rejected"
  ELSE IF servicesRes = "ok" /\ profileRes \in {"ok", "none"} THEN "fulfilled"
  ELSE "pending"

\* Faulty variant of AfterFinally: refreshing left as it is.
AfterFinallyLoadingOnly(s, flags) == [flags EXCEPT !.loading = FALSE]

\* The finally block of the screen's load: setLoading(false), and on the
\* services list setRefreshing(false)
AfterFinally(s, flags) ==
  IF s = "list" THEN [loading |-> FALSE, refreshing |-> FALSE]
  ELSE [flags EXCEPT !.loading = FALSE]

\* Faulty variant of Counted: every service counted as active.
CountedAll(counts, dates, today, thirtyDaysFromNow) ==
  [activeCount |-> counts.activeCount + 1,
   expiringSoonCount |->
     IF dates.currentEnd <= thirtyDaysFromNow /\ dates.currentEnd >= today
     THEN counts.expiringSoonCount + 1 ELSE counts.expiringSoonCount]

\* Lines 149-156 of Dashboard.jsx: the counters after one more resolution
Counted(counts, dates, today, thirtyDaysFromNow) ==
  IF dates.isActive
  THEN [activeCount |-> counts.activeCount + 1,
        expiringSoonCount |->
          IF dates.currentEnd <= thirtyDaysFromNow /\ dates.currentEnd >= today
          THEN counts.expiringSoonCount + 1 ELSE counts.expiringSoonCount]
  ELSE counts

\* Lines 160-164 of Dashboard.jsx
SummaryOf(rows, counts) ==
  [activeCount |-> counts.activeCount,
   expiredCount |-> Len(rows) - counts.activeCount,
   expiringSoonCount |-> counts.expiringSoonCount]

\* getStats of ServicesList.jsx
getStats(listed, datesMap) ==
  LET active == Cardinality({i \in DOMAIN datesMap : datesMap[i].isActive})
  IN [active |-> active, expired |-> Len(listed) - active, total |-> Len(listed)]

\* The load a mounted screen's effect starts
StartedLoad(s) ==
  [NoLoad EXCEPT !.pc = "requests", !.servicesRes = "pending",
                 !.profileRes = IF s = "dash" THEN "pending" ELSE "none"]

\* A screen is mounted: its effect has called loadDashboard, fetchServices
\* or fetchServiceDetails.
InitMounted ==
  /\ screen \in Screens
  /\ InitScreens
  /\ services = <<>>
  /\ clientName = DefaultName
  /\ serviceDatesMap = EmptyMap
  /\ summary = InitialSummary
  /\ refreshing = FALSE
  /\ service = NoService
  /\ load = StartedLoad(screen)
  /\ SignedOut
  /\ args = NoArgs
  /\ ret = NotCalled

\* catch (when the load was rejected) and finally: the flags are reset and
\* the load has ended.
Finally(l) ==
  LET flags == AfterFinally(screen, [loading |-> loading[screen], refreshing |-> refreshing])
  IN /\ loading' = [loading EXCEPT ![screen] = flags.loading]
     /\ refreshing' = flags.refreshing
     /\ load' = [l EXCEPT !.pc = "idle"]

\* setServiceDatesMap, on the dashboard setSummary, and the load returns to
\* its finally.
Publish(l, datesMap, counts) ==
  /\ serviceDatesMap' = datesMap
  /\ summary' = IF screen = "dash" THEN SummaryOf(l.rows, counts) ELSE summary
  /\ Finally(l)

\* A response has arrived for load l.  While the load awaits its requests:
\* rejected, it goes to catch and finally; fulfilled, it sets the services
\* (and the client name) and starts calculateServiceDates on the rows.  A
\* response that arrives after the load was rejected changes nothing.
Settled(l) ==
  LET joined == Joined(l.servicesRes, l.profileRes)
  IN IF load.pc # "requests" \/ joined = "pending"
     THEN /\ load' = l
          /\ UNCHANGED <<services, clientName, serviceDatesMap, summary, refreshing, loading>>
     ELSE IF joined = "rejected"
     THEN /\ Finally(l)
          /\ UNCHANGED <<services, clientName, serviceDatesMap, summary>>
     ELSE /\ services' = l.rows
          /\ clientName' = IF screen = "dash" THEN ClientNameOf(l.name) ELSE clientName
          /\ IF l.rows = <<>>
             THEN Publish(l, EmptyMap, [activeCount |-> 0, expiringSoonCount |-> 0])
             ELSE /\ load' = [l EXCEPT !.pc = "resolving", !.idx = 1,
                                       !.datesMap = EmptyMap,
                                       !.thirtyDaysFromNow = now + ThirtyDays * DayLen,
                                       !.activeCount = 0, !.expiringSoonCount = 0]
                  /\ UNCHANGED <<serviceDatesMap, summary, refreshing, loading>>

\* GET /client/services of the dashboard or the services list ended.
ServicesResponse(outcome) ==
  /\ screen \in CacheScreens
  /\ load.servicesRes = "pending"
  /\ Settled([load EXCEPT !.servicesRes = IF outcome.kind = "ok" THEN "ok" ELSE "failed",
                          !.rows = outcome.rows])
  /\ UNCHANGED <<service, screen, now, dashToday, timelineCache, chain,
                 succeeded, failedLast, needsRefetch, lastEv, args, ret, authVars>>

\* GET /clients/profile/me of the dashboard ended.
ProfileResponse(outcome) ==
  /\ screen = "dash"
  /\ load.profileRes = "pending"
  /\ Settled([load EXCEPT !.profileRes = IF outcome.kind = "ok" THEN "ok" ELSE "failed",
                          !.name = outcome.name])
  /\ UNCHANGED <<service, screen, now, dashToday, timelineCache, chain,
                 succeeded, failedLast, needsRefetch, lastEv, args, ret, authVars>>

\* getCurrentServiceDates returned for the row the loop is at, having
\* resolved from the timeline it found or fetched, or from the original
\* dates when its fetch failed: the loop goes on, or, after the last row,
\* publishes.
Resolved(outcome) ==
  LET row == ListedRow(load.rows[load.idx])
      today == IF screen = "list" THEN now ELSE dashToday
      dates == IF ApiRejects(outcome) THEN OnErrorFor(screen, today, row)
               ELSE ResolveFor(screen, today, row, outcome.timeline)
      datesMap == Put(load.datesMap, row.id, dates)
      counts == Counted([activeCount |-> load.activeCount,
                         expiringSoonCount |-> load.expiringSoonCount],
                        dates, today, load.thirtyDaysFromNow)
  IN /\ load.pc = "resolving"
     /\ IF load.idx = Len(load.rows)
        THEN Publish(load, datesMap, counts)
        ELSE /\ load' = [load EXCEPT !.idx = @ + 1, !.datesMap = datesMap,
                                     !.activeCount = counts.activeCount,
                                     !.expiringSoonCount = counts.expiringSoonCount]
             /\ UNCHANGED <<serviceDatesMap, summary, refreshing, loading>>
     /\ UNCHANGED <<services, clientName, service, screen, now, dashToday, timelineCache,
                    chain, succeeded, failedLast, needsRefetch, lastEv,
                    args, ret, authVars>>

\* ServicesList.onRefresh: the list is shown (loaded, with rows) and its
\* refresh control is not already refreshing.
RefreshList ==
  /\ screen = "list"
  /\ ~loading["list"]
  /\ ~refreshing
  /\ services # <<>>
  /\ refreshing' = TRUE
  /\ load' = StartedLoad("list")
  /\ UNCHANGED <<services, clientName, serviceDatesMap, summary, service, scrVars,
                 args, ret, authVars>>

\* GET /client/services/:id of the details screen ended: setService, then
\* finally.
DetailsResponse(outcome) ==
  /\ screen = "details"
  /\ load.servicesRes = "pending"
  /\ service' = IF ApiRejects(outcome) THEN NoService ELSE ServiceOf(1)
  /\ Finally([load EXCEPT !.servicesRes = IF ApiRejects(outcome) THEN "failed" ELSE "ok"])
  /\ UNCHANGED <<services, clientName, serviceDatesMap, summary, screen, now, dashToday,
                 timelineCache, chain, succeeded, failedLast, needsRefetch, lastEv,
                 args, ret, authVars>>

NextMounted ==
  \/ Tick /\ UNCHANGED <<args, ret, viewVars, authVars>>
  \/ \E o \in ServicesOutcomes : ServicesResponse(o)
  \/ \E o \in ProfileOutcomes : ProfileResponse(o)
  \/ \E o \in ApiOutcomes : Resolved(o)
  \/ RefreshList
  \/ \E o \in ApiOutcomes : DetailsResponse(o)

SpecMounted == InitMounted /\ [][NextMounted]_vars

\* Every request through api.js ends (answered, failed, or timed out), and
\* an awaited resolution returns.
SpecMountedFair ==
  /\ SpecMounted
  /\ WF_vars(\E o \in ServicesOutcomes : ServicesResponse(o))
  /\ WF_vars(\E o \in ProfileOutcomes : ProfileResponse(o))
  /\ WF_vars(\E o \in ApiOutcomes : Resolved(o))
  /\ WF_vars(\E o \in ApiOutcomes : DetailsResponse(o))

\* ------------------------------------------------------------ the screens
Init ==
  /\ screen \in Screens
  /\ InitScreens
  /\ args = NoArgs
  /\ ret = NotCalled
  /\ Unmounted
  /\ SignedOut

Next ==
  \/ Tick /\ UNCHANGED <<args, ret, viewVars, authVars>>
  \/ \E p \in Chains, s \in CacheScreens : StartLoad(p, s) /\ UNCHANGED <<args, ret, viewVars, authVars>>
  \/ \E p \in Chains : Refresh(p) /\ UNCHANGED <<args, ret, viewVars, authVars>>
  \/ \E p \in Chains : ServicesOk(p) /\ UNCHANGED <<args, ret, viewVars, authVars>>
  \/ \E p \in Chains : ServicesFail(p) /\ UNCHANGED <<args, ret, viewVars, authVars>>
  \/ \E p \in Chains : Get(p) /\ UNCHANGED <<args, ret, viewVars, authVars>>
  \/ \E p \in Chains, o \in ApiOutcomes : TimelineResponse(p, o) /\ UNCHANGED <<args, ret, viewVars, authVars>>
  \/ \E p \in Chains, id \in ServiceIds : StartDetails(p, id) /\ UNCHANGED <<args, ret, viewVars, authVars>>
  \/ \E p \in Chains, o \in ApiOutcomes : DetailsService(p, o) /\ UNCHANGED <<args, ret, viewVars, authVars>>
  \/ \E p \in Chains, o \in ApiOutcomes : DetailsTimeline(p, o) /\ UNCHANGED <<args, ret, viewVars, authVars>>

Spec == Init /\ [][Next]_vars

\* ============================================================ properties
\* A service record that states both of its dates, and its window
HasDates(sv) == sv # NoService /\ sv.start_date # NULL /\ sv.end_date # NULL

\* The event states both ends of a window that contains instant t
Contains(t, ev) ==
  /\ ev.start_date # NULL /\ ev.end_date # NULL
  /\ ev.start_date <= t /\ t <= ev.end_date

\* The event states an end, and it lies before instant t
EndedBefore(t, ev) == ev.end_date # NULL /\ ev.end_date < t

Indices(evs) == 1..Len(evs)

\* The events among those at the indices I whose end date is the latest
LatestEnding(evs, I) == {i \in I : \A j \in I : evs[j].end_date <= evs[i].end_date}

\* The screen's result has the window of event ev.  An event that states no
\* start has no window start to compare.
ListHasWindowOf(r, ev) ==
  /\ r.currentEnd = ev.end_date
  /\ ev.start_date # NULL => r.currentStart = ev.start_date

DetailsHasWindowOf(r, ev) ==
  /\ r.endDate = ev.end_date
  /\ ev.start_date # NULL => r.startDate = ev.start_date

\* ---- C1: once a fetch for a service id has succeeded (an empty timeline
\* included) and the cache has not been cleared since, a later resolution of
\* that id issues no fetch (it is never a miss) and resolves from the events
\* the cache holds.
CacheHitAfterSuccess ==
  /\ lastEv.op = "miss" => lastEv.id \notin succeeded[lastEv.screen]
  /\ lastEv.op = "hit" =>
       /\ lastEv.id \in succeeded[lastEv.screen]
       /\ lastEv.result =
            ResolveFor(lastEv.screen, IF lastEv.screen = "list" THEN now ELSE dashToday,
                       ServiceRow(lastEv.id), timelineCache[lastEv.screen][lastEv.id])

\* A resolution served from a cached empty timeline.
CacheHitOnEmptyReached ==
  /\ lastEv.op = "hit"
  /\ timelineCache[lastEv.screen][lastEv.id] = <<>>

\* ---- C2: after a failed timeline fetch for a service id, the next
\* resolution of that id issues a new fetch.
RefetchAfterFailure ==
  (lastEv.op \in {"hit", "miss"} /\ lastEv.afterFailure) => lastEv.op = "miss"

\* ---- C3: after the refresh action has cleared the cache, the next
\* resolution of any service id issues a new fetch, in every interleaving.
RefetchAfterClear ==
  (lastEv.op \in {"hit", "miss"} /\ lastEv.afterClear) => lastEv.op = "miss"

\* ---- C4: with an empty event set, each screen's resolver returns the
\* service's original (start, end) and isExtended = FALSE.
FallbackLaw ==
  (ret.done /\ args.events = <<>> /\ HasDates(args.service)) =>
    /\ ret.list.currentStart = args.service.start_date
    /\ ret.list.currentEnd = args.service.end_date
    /\ ~ret.list.isExtended
    /\ ret.dash.currentStart = args.service.start_date
    /\ ret.dash.currentEnd = args.service.end_date
    /\ ~ret.dash.isExtended
    /\ ret.details.startDate = args.service.start_date
    /\ ret.details.endDate = args.service.end_date
    /\ ~ret.details.isExtended

\* The resolvers have been called on a dated service with no events.
FallbackReached == ret.done /\ args.events = <<>> /\ HasDates(args.service)

\* ---- C5: when the timeline fetch fails (network error, client timeout or
\* non-2xx response), the resolution returns the service's original window
\* with isExtended = FALSE; every such failure, the timeout included, takes
\* the same path.
FetchFailureDegrades ==
  /\ (lastEv.screen \in CacheScreens /\ lastEv.op \in {"stored", "failed", "propagated"}
        /\ lastEv.kind # "ok") =>
       /\ lastEv.op = "failed"
       /\ lastEv.result # NoResult
  /\ (lastEv.screen \in CacheScreens /\ lastEv.op = "failed") =>
       /\ lastEv.result.currentStart = ServiceRow(lastEv.id).start_date
       /\ lastEv.result.currentEnd = ServiceRow(lastEv.id).end_date
       /\ ~lastEv.result.isExtended
  /\ (lastEv.screen = "details" /\ lastEv.op = "failed") =>
       /\ lastEv.result.startDate = ServiceRow(lastEv.id).start_date
       /\ lastEv.result.endDate = ServiceRow(lastEv.id).end_date
       /\ ~lastEv.result.isExtended

\* A resolution of the services list whose fetch timed out.
TimeoutDegradedReached ==
  lastEv.screen = "list" /\ lastEv.op = "failed" /\ lastEv.kind = "timeout"

TieBreakLatestEnd ==
  LET evs == args.events
      active == {i \in Indices(evs) : Contains(args.now, evs[i])}
  IN (ret.done /\ HasDates(args.service) /\ Cardinality(active) >= 2) =>
       /\ \E i \in LatestEnding(evs, active) : ListHasWindowOf(ret.list, evs[i])
       /\ \E i \in LatestEnding(evs, active) : ListHasWindowOf(ret.dash, evs[i])
       /\ \E i \in LatestEnding(evs, active) : DetailsHasWindowOf(ret.details, evs[i])

\* ---- C8: when no event contains now and some event has ended before now,
\* the services-list and service-details resolvers return the window of an
\* ended event with the latest end date, and isExtended = TRUE.
CompletedFallback ==
  LET evs == args.events
      active == {i \in Indices(evs) : Contains(args.now, evs[i])}
      ended == {i \in Indices(evs) : EndedBefore(args.now, evs[i])}
  IN (ret.done /\ args.service # NoService /\ active = {} /\ ended # {}) =>
       /\ \E i \in LatestEnding(evs, ended) : ListHasWindowOf(ret.list, evs[i])
       /\ ret.list.isExtended
       /\ \E i \in LatestEnding(evs, ended) : DetailsHasWindowOf(ret.details, evs[i])
       /\ ret.details.isExtended

\* The resolvers have been called with two events that ended at different
\* instants before now and none containing now.
CompletedFallbackReached ==
  /\ ret.done /\ args.service # NoService
  /\ \A i \in Indices(args.events) : ~Contains(args.now, args.events[i])
  /\ \E i, j \in Indices(args.events) :
       /\ EndedBefore(args.now, args.events[i])
       /\ EndedBefore(args.now, args.events[j])
       /\ args.events[i].end_date < args.events[j].end_date
       /\ i < j

\* ---- C9: when every event of a non-empty event set starts strictly after
\* now, the resolver returns the service's original (start, end) with
\* isExtended = FALSE.
FutureOnlyFallsBack ==
  (/\ ret.done /\ HasDates(args.service) /\ args.events # <<>>
   /\ \A i \in Indices(args.events) :
        args.events[i].start_date # NULL /\ args.events[i].start_date > args.now) =>
    /\ ret.list.currentStart = args.service.start_date
    /\ ret.list.currentEnd = args.service.end_date
    /\ ~ret.list.isExtended
    /\ ret.details.startDate = args.service.start_date
    /\ ret.details.endDate = args.service.end_date
    /\ ~ret.details.isExtended

\* The resolvers have been called with events that all start after now.
FutureOnlyReached ==
  /\ ret.done /\ HasDates(args.service) /\ args.events # <<>>
  /\ \A i \in Indices(args.events) :
       args.events[i].start_date # NULL /\ args.events[i].start_date > args.now

\* ---- C10: each screen's active indication is TRUE exactly when now, the
\* instant of the resolution, lies within [effective start, effective end].
ActiveFlagIsNowInWindow ==
  (ret.done /\ HasDates(args.service)) =>
    /\ ret.list.isActive <=>
         (ret.list.currentStart <= args.now /\ args.now <= ret.list.currentEnd)
    /\ ret.dash.isActive <=>
         (ret.dash.currentStart <= args.now /\ args.now <= ret.dash.currentEnd)
    /\ ret.detailsActive <=>
         (ret.details.startDate <= args.now /\ args.now <= ret.details.endDate)

\* The events of a sequence, whatever their order
Range(s) == {s[i] : i \in 1..Len(s)}

\* ---- C11: the status of a loaded service is "expired" exactly when now is
\* past the effective end; otherwise "expiring-soon" exactly when the whole
\* days from now to the effective end are at most 7; otherwise "active".  An
\* end 7 days ahead is expiring-soon, 8 days ahead active, one instant
\* behind expired.
StatusClassifier ==
  (ret.done /\ args.service # NoService) =>
    LET effectiveEnd == ret.details.endDate
        days == (effectiveEnd - args.now) \div DayLen
    IN /\ ret.detailsStatus = "expired" <=> args.now > effectiveEnd
       /\ ret.detailsStatus = "expiring-soon" <=>
            (args.now <= effectiveEnd /\ days <= ExpiringSoonDays)
       /\ ret.detailsStatus = "active" <=>
            (args.now <= effectiveEnd /\ days > ExpiringSoonDays)
       /\ effectiveEnd = args.now + ExpiringSoonDays * DayLen =>
            ret.detailsStatus = "expiring-soon"
       /\ effectiveEnd = args.now + (ExpiringSoonDays + 1) * DayLen =>
            ret.detailsStatus = "active"
       /\ effectiveEnd = args.now - 1 => ret.detailsStatus = "expired"

\* The status has been computed for a period that ends exactly 7 days ahead.
StatusBoundaryReached ==
  /\ ret.done /\ args.service # NoService
  /\ ret.details.endDate = args.now + ExpiringSoonDays * DayLen

\* ---- C12: every screen that shows the days remaining of an active period
\* shows floor((effective end - now) / 1 day), and a period that ends within
\* the day is labelled "Expires today".
DayCountFloor ==
  (ret.done /\ args.service # NoService) =>
    /\ ret.list.isActive =>
         /\ ret.days.list = (ret.list.currentEnd - args.now) \div DayLen
         /\ ret.days.list = 0 => ret.label.list = "Expires today"
    /\ ret.dash.isActive =>
         ret.days.dash = (ret.dash.currentEnd - args.now) \div DayLen
    /\ ret.detailsActive =>
         /\ ret.days.details = (ret.details.endDate - args.now) \div DayLen
         /\ ret.days.details = 0 => ret.label.details = "Expires today"

\* ---- C13: for a service record without dates and with no events, every
\* screen's resolver returns the window (now, now).
DegenerateWindowAtNow ==
  (/\ ret.done /\ args.service # NoService /\ args.events = <<>>
   /\ args.service.start_date = NULL /\ args.service.end_date = NULL) =>
    /\ ret.list.currentStart = args.now /\ ret.list.currentEnd = args.now
    /\ ret.dash.currentStart = args.now /\ ret.dash.currentEnd = args.now
    /\ ret.details.startDate = args.now /\ ret.details.endDate = args.now

\* ---- C14: a maintenance extension whose window contains now is the
\* resolved period, with isExtended = TRUE, when no phase event is given.
MaintenanceExtensionUsed ==
  (/\ ret.done /\ HasDates(args.service) /\ args.events = <<>>
   /\ args.loaded = args.now
   /\ \E i \in Indices(args.maintenance) : Contains(args.now, args.maintenance[i])) =>
    \E i \in Indices(args.maintenance) :
      /\ Contains(args.now, args.maintenance[i])
      /\ ListHasWindowOf(ret.list, args.maintenance[i]) /\ ret.list.isExtended
      /\ ListHasWindowOf(ret.dash, args.maintenance[i]) /\ ret.dash.isExtended
      /\ ret.dash.isActive
      /\ DetailsHasWindowOf(ret.details, args.maintenance[i]) /\ ret.details.isExtended

\* ---- C15: isExtended is TRUE exactly when the resolved window differs
\* from the service's original window.
ExtendedIffWindowDiffers ==
  (ret.done /\ HasDates(args.service)) =>
    /\ ret.list.isExtended <=>
         (\/ ret.list.currentStart # args.service.start_date
          \/ ret.list.currentEnd # args.service.end_date)
    /\ ret.details.isExtended <=>
         (\/ ret.details.startDate # args.service.start_date
          \/ ret.details.endDate # args.service.end_date)

\* ---- C16: while a service id has a cache entry, no step changes the set
\* of events the entry holds.
CacheEntryImmutable ==
  [][\A s \in CacheScreens : \A id \in ServiceIds :
       (id \in DOMAIN timelineCache[s] /\ id \in DOMAIN timelineCache'[s]) =>
         Range(timelineCache'[s][id]) = Range(timelineCache[s][id])]_vars

\* ---- C17: only the refresh action removes entries of the list's cache
\* (no mount, no response and no passage of time does), and it leaves the
\* cache without any entry.
ClearScope ==
  [][/\ lastEv'.op = "clear" => timelineCache'["list"] = EmptyMap
     /\ (\E s \in CacheScreens : \E id \in DOMAIN timelineCache[s] :
           id \notin DOMAIN timelineCache'[s]) => lastEv'.op = "clear"]_vars

\* The refresh action has just emptied a cache that held entries.
ClearRemovedReached ==
  /\ lastEv.op = "clear"
  /\ lastEv.result.held # {}
  /\ timelineCache["list"] = EmptyMap

\* ---- C18: the screens share one cache: an id that is a hit for one
\* screen is a hit for every other.
SingleSharedCache ==
  \A s \in CacheScreens : \A u \in CacheScreens : \A id \in ServiceIds :
    ~CacheMiss(timelineCache[s], id) => ~CacheMiss(timelineCache[u], id)

MaintenanceTwoStates ==
  (ret.done /\ ret.maintenance # <<>>) =>
    \A i \in Indices(ret.maintenance) :
      /\ ret.maintenanceStatus[i] \in {"active", "expired"}
      /\ ret.maintenance[i].end_date # NULL =>
           /\ ret.maintenanceStatus[i] = "active" <=> args.now <= ret.maintenance[i].end_date
           /\ ret.maintenanceStatus[i] = "expired" <=> args.now > ret.maintenance[i].end_date

\* A maintenance record that starts after now has been given its status.
MaintenanceNotStartedReached ==
  /\ ret.done
  /\ \E i \in Indices(ret.maintenance) :
       /\ ret.maintenance[i].start_date # NULL
       /\ ret.maintenance[i].start_date > args.now
       /\ ret.maintenanceStatus[i] = "active"

\* ---- C21: every phase event of the timeline-history screen that states its
\* window is given exactly one status: "upcoming" when now < start,
\* "completed" when now > end, "active" when start <= now <= end; and
\* "upcoming" is given to phase events only, never to a maintenance record
\* and never by the status the resolver's screen derives.
PhaseEventStatus ==
  ret.done =>
    /\ \A i \in Indices(ret.timeline) :
         LET ev == ret.timeline[i]
             st == ret.timelineStatus[i]
         IN /\ st \in {"upcoming", "completed", "active"}
            /\ (ev.start_date # NULL /\ ev.end_date # NULL) =>
                 /\ st = "upcoming" <=> args.now < ev.start_date
                 /\ st = "completed" <=> args.now > ev.end_date
                 /\ st = "active" <=> (ev.start_date <= args.now /\ args.now <= ev.end_date)
    /\ \A i \in Indices(ret.maintenance) : ret.maintenanceStatus[i] # "upcoming"
    /\ \A sv \in ServiceChoices :
         calculateServiceStatus(args.now, sv, ret.timeline) # "upcoming"

\* A phase event that starts exactly now has been rendered, as active.
PhaseStartingNowReached ==
  /\ ret.done
  /\ \E i \in Indices(ret.timeline) :
       /\ ret.timeline[i].start_date = args.now
       /\ ret.timeline[i].end_date # NULL
       /\ ret.timelineStatus[i] = "active"

\* ---- C22: between two consecutive clears at most one fetch of a service
\* id is issued while the fetch succeeds, however the resolutions interleave.
\* A resolution that misses issues a fetch.  When the id has been resolved
\* since the last clear and no fetch of it has failed since, an earlier
\* fetch of the id is still awaiting its response, so the miss issues a
\* second one: this never happens.
OneFetchPerId ==
  ~(/\ lastEv.op = "miss"
    /\ ~lastEv.afterClear
    /\ ~lastEv.afterFailure
    /\ \E p, q \in Chains :
         /\ p # q
         /\ chain[p].pc = "timeline" /\ chain[q].pc = "timeline"
         /\ chain[p].screen = lastEv.screen /\ chain[q].screen = lastEv.screen
         /\ chain[p].idx = lastEv.id /\ chain[q].idx = lastEv.id)

\* Every date field of the events is stated
AllDated(evs) ==
  \A i \in Indices(evs) : evs[i].start_date # NULL /\ evs[i].end_date # NULL

\* ---- C26: for the same service record, the same list of phase events and
\* the same now (the dashboard's module loaded at that instant), the
\* dashboard, the services list and the details screen resolve the same
\* effective start, effective end and isExtended.
CrossScreenAgreement ==
  (/\ ret.done
   /\ HasDates(args.service)
   /\ AllDated(args.events)
   /\ args.loaded = args.now)
  => /\ ret.list.currentStart = ret.details.startDate
     /\ ret.list.currentEnd = ret.details.endDate
     /\ ret.list.isExtended = ret.details.isExtended
     /\ ret.dash.currentStart = ret.details.startDate
     /\ ret.dash.currentEnd = ret.details.endDate
     /\ ret.dash.isExtended = ret.details.isExtended

\* The orders the API may return the events in
OrdersOf(evs) ==
  {[i \in Indices(evs) |-> evs[f[i]]] :
     f \in {g \in [Indices(evs) -> Indices(evs)] :
              \A i, j \in Indices(evs) : g[i] = g[j] => i = j}}

\* ---- C27: the resolved start and end depend only on which events the
\* service has: resolving any permutation of the event list, events that
\* share an end date included, gives the start and end the call gave.
OrderIndependence ==
  (ret.done /\ HasDates(args.service) /\ AllDated(args.events)) =>
    \A evs \in OrdersOf(args.events) :
      LET l == ListResolveTimeline(args.now, args.service.start_date,
                                   args.service.end_date, evs)
          t == getCurrentActiveServicePeriod(args.now, args.service, evs)
      IN /\ l.currentStart = ret.list.currentStart
         /\ l.currentEnd = ret.list.currentEnd
         /\ t.startDate = ret.details.startDate
         /\ t.endDate = ret.details.endDate

\* ---- C25: a 401 response from any endpoint is logged and passed on to the
\* caller as a failure, and changes neither the stored token nor
\* AuthProvider's token.
UnauthorizedLeavesSession ==
  [][(lastAuth'.op = "response" /\ lastAuth'.status = 401) =>
       /\ lastAuth'.logged
       /\ lastAuth'.settled = "rejected"
       /\ token' = token
       /\ stored' = stored]_vars

\* A signed-in session has received a 401.
UnauthorizedWhileSignedInReached ==
  /\ lastAuth.op = "response"
  /\ lastAuth.status = 401
  /\ token # NoToken
  /\ stored = token

\* ---- C30: once every call of login and logout has run to completion,
\* AuthProvider holds a token exactly when one is stored, and then the
\* stored one.
AuthTokenConsistency ==
  (~authLoading /\ \A c \in CallSlots : calls[c] = NoCall) =>
    /\ token # NoToken <=> stored # NoToken
    /\ token # NoToken => token = stored

\* ---- C23: the dashboard updates its services, its client name and its
\* summary only after both the services request and the profile request have
\* succeeded; when either has failed none of them is updated and no
\* resolution is started.
DashboardJoin ==
  screen = "dash" =>
    /\ (\/ services # <<>>
        \/ clientName # DefaultName
        \/ summary # InitialSummary
        \/ serviceDatesMap # EmptyMap
        \/ load.pc = "resolving")
       => (load.servicesRes = "ok" /\ load.profileRes = "ok")
    /\ (load.servicesRes = "failed" \/ load.profileRes = "failed")
       => /\ services = <<>>
          /\ clientName = DefaultName
          /\ summary = InitialSummary
          /\ serviceDatesMap = EmptyMap
          /\ load.pc = "idle"

\* The services request succeeded with rows, the profile request failed,
\* and the load has ended.
ProfileFailedAloneReached ==
  /\ screen = "dash"
  /\ load.servicesRes = "ok"
  /\ load.rows # <<>>
  /\ load.profileRes = "failed"
  /\ ~loading["dash"]

\* ---- C24: the dashboard's summary is published only once all N services
\* have been resolved, and then activeCount is the number of services whose
\* resolved period is active, expiredCount = N - activeCount, and
\* 0 <= expiringSoonCount <= activeCount <= N.
AggregateBarrier ==
  screen = "dash" =>
    LET N == Len(services)
        active == {i \in DOMAIN serviceDatesMap : serviceDatesMap[i].isActive}
    IN /\ load.pc # "idle" => (summary = InitialSummary /\ serviceDatesMap = EmptyMap)
       /\ load.pc = "idle" =>
            /\ DOMAIN serviceDatesMap = Range(services)
            /\ summary.activeCount = Cardinality(active)
            /\ summary.expiredCount = N - summary.activeCount
            /\ 0 <= summary.expiringSoonCount
            /\ summary.expiringSoonCount <= summary.activeCount
            /\ summary.activeCount <= N

\* A summary has been published with an active service that is not
\* expiring soon and a service that is not active.
MixedSummaryReached ==
  /\ screen = "dash"
  /\ load.pc = "idle"
  /\ summary.expiringSoonCount < summary.activeCount
  /\ summary.expiredCount > 0

\* ---- C28: in every state of the services-list screen, a refresh in
\* progress included, 0 <= active <= total, expired = total - active >= 0,
\* and active is the number of listed services whose resolved period is
\* active.
ListCounters ==
  screen = "list" =>
    LET stats == getStats(services, serviceDatesMap)
    IN /\ 0 <= stats.active
       /\ stats.active <= stats.total
       /\ stats.expired = stats.total - stats.active
       /\ stats.expired >= 0
       /\ stats.active =
            Cardinality({i \in Range(services) :
                           i \in DOMAIN serviceDatesMap /\ serviceDatesMap[i].isActive})

\* ---- C29: on each screen the loading flag becomes false once the load's
\* requests have ended, whether they succeeded or failed, and stays false;
\* on the services list the refreshing flag is back to false after every
\* refresh.
LoadingTerminates ==
  /\ <>[](~loading[screen])
  /\ [][~loading[screen] => ~loading'[screen]]_vars
  /\ (refreshing ~> ~refreshing)

\* A refresh of the services list failed, and both flags are down.
RefreshFailedReached ==
  /\ screen = "list"
  /\ services # <<>>
  /\ load.pc = "idle"
  /\ load.servicesRes = "failed"
  /\ ~refreshing
  /\ ~loading["list"]

====
